---- MODULE Spec2Model ----
(***************************************************************************)
(* Model of the exploration node of cam_exploration                        *)
(* (src/src/cam_exploration.cpp): the globals robot, fmap and              *)
(* goal_selector, the functions decideGoal, getFrontiers and finish, and   *)
(* the main loop of spin().                                                *)
(*                                                                         *)
(* The node is single threaded: callbacks run only inside ros::spinOnce(). *)
(* spin() is modelled by its position pc:                                  *)
(*   "startup"   lines 110-184, before the loop                            *)
(*   "aborted"   an exception of the startup left spin() and main()        *)
(*   "test"      line 185, the test of while (ros::ok())                   *)
(*   "scan"      line 72, the test of the while loop of decideGoal()       *)
(*   "spinOnce"  line 216, the callbacks and the sleep                     *)
(*   "exited"    spin() returned and main() returned 0                     *)
(*   "crashed"   the process was killed by a fault (undefined behaviour)   *)
(*                                                                         *)
(* MapServer, RobotMotion, the goal selector strategies and the Replaner   *)
(* are collaborators whose code is not in cam_exploration.cpp; they are    *)
(* modelled by their contract (section 6 of the specification).            *)
(***************************************************************************)
EXTENDS Naturals, Sequences, FiniteSets

\* Longest frontier set the map server delivers.
MaxLen == 3
\* How many positions past the end of fmap the scan is followed before the
\* undefined reads are taken to end (in a fault or an accepted garbage goal).
MaxOverrun == 2

\* The frontiers the map server can report. The scan reads of a frontier only
\* whether the strategy accepts it and which pose it yields, so two frontiers
\* and every choice of the accepted ones give every scan of a given length.
Frontiers == {"f1", "f2"}

RECURSIVE SeqsUpTo(_, _)
SeqsUpTo(S, n) ==
    IF n = 0 THEN {<<>>}
    ELSE LET shorter == SeqsUpTo(S, n - 1)
         IN shorter \cup {Append(s, x) : s \in {t \in shorter : Len(t) = n - 1}, x \in S}

\* The values of a FrontiersMap: sequences of frontiers, in scan order.
FrontierSets == SeqsUpTo(Frontiers, MaxLen)

\* The values of the parameter goal_selector/type: not set, the one known
\* strategy, or a name that is no strategy.
SelectorNames == {"unset", "mid_point", "bogus"}

\* The values of the parameter replaning/conditions: lists of cause names, of
\* which "known" names a replanning cause and "bogus" does not.
ReplanConfigs == {<<>>, <<"known">>, <<"bogus">>, <<"known", "bogus">>}

\* The pose the strategy derives from a frontier.
GoalOf(f) == <<"pose", f>>
\* The pose left in `goal` by an invocation on memory that is no frontier.
GarbageGoal == <<"pose", "garbage">>
NoGoal == <<"none">>

VARIABLES
    pc,                    \* position of spin()
    rosOk,                 \* ros::ok()
    selectorName,          \* parameter goal_selector/type
    replan_conditions,     \* parameter replaning/conditions
    goal_selector,         \* the global pointer: "NULL" or "midPoint"
    accepts,               \* the frontiers the active strategy accepts
    fmap,                  \* the global FrontiersMap
    pending,               \* map update queued for the next spinOnce, or <<>>
    map_received,          \* mapServer.mapReceived()
    first_time,            \* local of spin()
    exploration_finished,  \* local of spin()
    moving,                \* robot.isMoving()
    goal,                  \* the goal the robot is pursuing
    f_it,                  \* iterator of decideGoal(), as a position in fmap
    \* what the current loop iteration has done so far (cleared at its end)
    pose,                  \* refreshPose(): "none" (not called), "ok", "fail"
    verdict,               \* replaner.replan(): "none" (not called), "yes", "no"
    scanRan,               \* decideGoal() was entered
    invoked,               \* positions goal_selector->decideGoal was called on
    dispatched,            \* goals passed to robot.goTo
    \* what the whole run has done
    refreshed,             \* refreshPose() has succeeded on some tick
    warnings,              \* warnings "Couldn't get robot position!" logged since
                           \* refreshPose() last succeeded: 0, 1, or 2 for more
    finishCalls,           \* calls of finish()
    cancelCalls,           \* calls of robot.cancelGoal()
    stopWhileMoving,       \* the stop signal arrived while the robot was moving
    firstScan              \* ScanTwiceSpec: the outcome of the first of the two
                           \* scans, <<>> before it has ended

vars == <<pc, rosOk, selectorName, replan_conditions, goal_selector, accepts, fmap, pending,
          map_received, first_time, exploration_finished, moving, goal, f_it,
          pose, verdict, scanRan, invoked, dispatched, refreshed, warnings,
          finishCalls, cancelCalls, stopWhileMoving, firstScan>>

config == <<selectorName, replan_conditions, accepts>>
tickObs == <<pose, verdict, scanRan, invoked, dispatched>>
runObs == <<finishCalls, cancelCalls, stopWhileMoving, firstScan>>
history == <<refreshed, warnings, runObs>>

TypeOK ==
    /\ pc \in {"startup", "aborted", "test", "scan", "spinOnce", "exited",
              "crashed"}
    /\ rosOk \in BOOLEAN
    /\ selectorName \in SelectorNames
    /\ replan_conditions \in ReplanConfigs
    /\ goal_selector \in {"NULL", "midPoint"}
    /\ accepts \subseteq Frontiers
    /\ fmap \in FrontierSets
    /\ pending \in {<<>>} \cup {<<fs>> : fs \in FrontierSets}
    /\ map_received \in BOOLEAN
    /\ first_time \in BOOLEAN
    /\ exploration_finished \in BOOLEAN
    /\ moving \in BOOLEAN
    /\ f_it \in 1..(MaxLen + MaxOverrun + 1)
    /\ pose \in {"none", "ok", "fail"}
    /\ verdict \in {"none", "yes", "no"}
    /\ scanRan \in BOOLEAN
    /\ Len(dispatched) <= 1
    /\ refreshed \in BOOLEAN
    /\ warnings \in 0..2
    /\ finishCalls \in Nat
    /\ cancelCalls \in Nat
    /\ stopWhileMoving \in BOOLEAN
    /\ firstScan = <<>> \/ Len(firstScan) = 2

\* The state when main() calls spin(): the globals are zero-initialised
\* (goal_selector is a null pointer, fmap is empty), no map has arrived.
\* accepts is the acceptance criterion of the strategy the configuration
\* names; with no strategy named, nothing is accepted.
Init ==
    /\ pc = "startup"
    /\ rosOk = TRUE
    /\ selectorName \in SelectorNames
    /\ replan_conditions \in ReplanConfigs
    /\ goal_selector = "NULL"
    /\ accepts \in IF selectorName = "mid_point" THEN SUBSET Frontiers ELSE {{}}
    /\ fmap = <<>>
    /\ pending = <<>>
    /\ map_received = FALSE
    /\ first_time = TRUE
    /\ exploration_finished = FALSE
    /\ moving = FALSE
    /\ goal = NoGoal
    /\ f_it = 1
    /\ pose = "none"
    /\ verdict = "none"
    /\ scanRan = FALSE
    /\ invoked = <<>>
    /\ dispatched = <<>>
    /\ refreshed = FALSE
    /\ warnings = 0
    /\ finishCalls = 0
    /\ cancelCalls = 0
    /\ stopWhileMoving = FALSE
    /\ firstScan = <<>>

\* ---------------------------------------------------------------- startup

\* Lines 152-161: the strategy installed for a configured name. Any name but
\* "mid_point", and a missing parameter, only log an error: the pointer keeps
\* the value it had.
SelectStrategy(name, old) ==
    IF name = "mid_point" THEN "midPoint" ELSE old

\* Replaner::addCause(name): a name that is no replanning cause is a
\* configuration error, raised to the caller.
AddCause(name) == IF name = "known" THEN "registered" ELSE "error"

\* Lines 135-146 with the error of addCause caught and logged: registration
\* always goes through.
RegisterCauses_SwallowsErrors(conditions) == "ok"

\* Lines 135-146: the causes are registered in order; nothing catches the
\* error of addCause, so the first one raised ends the registration.
RECURSIVE RegisterCauses(_)
RegisterCauses(conditions) ==
    IF conditions = <<>> THEN "ok"
    ELSE IF AddCause(Head(conditions)) = "error" THEN "error"
    ELSE RegisterCauses(Tail(conditions))

\* Replaner::replan(): the OR of the votes of the registered causes, which
\* is false when no cause is registered.
ReplanVerdicts == IF replan_conditions = <<>> THEN {FALSE} ELSE BOOLEAN

\* Lines 110-184: subscriptions, replanning causes, strategy selection, marker
\* setup and the two locals of the loop. An error raised by the registration
\* of the causes leaves spin() and main(), which catch nothing; no statement
\* of spin() itself returns or throws, so otherwise control reaches the loop.
Startup ==
    /\ pc = "startup"
    /\ IF RegisterCauses(replan_conditions) = "error"
       THEN /\ pc' = "aborted"
            /\ UNCHANGED goal_selector
       ELSE /\ pc' = "test"
            /\ goal_selector' = SelectStrategy(selectorName, goal_selector)
    /\ first_time' = TRUE
    /\ exploration_finished' = FALSE
    /\ UNCHANGED <<rosOk, config, fmap, pending, map_received, moving, goal,
                   f_it, tickObs, history>>

\* ------------------------------------------------------------ collaborators

\* goalSelector::decideGoal(frontier, goal): whether the strategy accepts.
SelectorAccepts(f) == f \in accepts

\* robot.goTo(g): the goal supersedes the one in progress.
GoTo(g) ==
    /\ dispatched' = Append(dispatched, g)
    /\ goal' = g
    /\ moving' = TRUE

\* ------------------------------------------------------------------ finish

\* Lines 98-104: cancel the goal if the robot is moving, then ros::shutdown().
Finish ==
    /\ finishCalls' = finishCalls + 1
    /\ IF moving
       THEN cancelCalls' = cancelCalls + 1 /\ moving' = FALSE
       ELSE UNCHANGED <<cancelCalls, moving>>
    /\ rosOk' = FALSE
    /\ pc' = "spinOnce"
    /\ UNCHANGED <<first_time, goal, f_it, tickObs, refreshed, warnings,
                   stopWhileMoving, firstScan>>

\* ------------------------------------------------------------- decideGoal

\* Line 200 without the bootstrap: replan() alone decides.
ReplanWarranted_NoBootstrap(v, ft) == v

\* Line 200 ignored: every tick with a pose replans.
ReplanWarranted_Always(v, ft) == TRUE

\* Line 200: the condition under which the tick replans.
ReplanWarranted(v, ft) == v \/ ft

\* Lines 202-206 and 70-71: clear first_time, enter decideGoal() with the
\* iterator at fmap.begin().
BeginScan ==
    /\ first_time' = FALSE
    /\ scanRan' = TRUE
    /\ f_it' = 1
    /\ invoked' = <<>>
    /\ pc' = "scan"
    /\ UNCHANGED <<dispatched, goal, moving>>

\* Lines 72-73, the frontier declined: f_it++.
NextPosition(i) == i + 1

Advance ==
    /\ invoked' = Append(invoked, f_it)
    /\ f_it' = NextPosition(f_it)
    /\ UNCHANGED <<pc, dispatched, goal, moving>>

\* Line 206 guarded by !robot.isMoving(): the accepted goal is dropped while
\* an earlier goal is in progress.
Commit_KeepsGoalInProgress(g) ==
    /\ invoked' = Append(invoked, f_it)
    /\ IF moving
       THEN UNCHANGED <<dispatched, goal, moving>>
       ELSE GoTo(g)
    /\ pc' = "spinOnce"
    /\ UNCHANGED f_it

\* Lines 72, 76-79 and 206: the frontier accepted; decideGoal() returns the
\* goal and spin() passes it to robot.goTo.
Commit(g) ==
    /\ invoked' = Append(invoked, f_it)
    /\ GoTo(g)
    /\ pc' = "spinOnce"
    /\ UNCHANGED f_it

\* Line 72 with f_it at or past fmap.end(), or through a null goal_selector:
\* undefined behaviour. The process faults, or the strategy runs on memory
\* that is no frontier and accepts it or declines it.
UndefinedRead ==
    \/ /\ invoked' = Append(invoked, f_it)
       /\ pc' = "crashed"
       /\ UNCHANGED <<f_it, dispatched, goal, moving>>
    \/ Commit(GarbageGoal)
    \/ /\ f_it < Len(fmap) + MaxOverrun
       /\ Advance

\* Line 72 with the negation dropped: the loop goes on while frontiers are
\* accepted.
LoopContinues_NoNegation(accepted) == accepted

\* Line 72: the loop goes on while the strategy declines.
LoopContinues(accepted) == ~accepted

\* Lines 72-74 with a ros::spinOnce() in the body of the while loop: the
\* queued map callbacks run between two invocations of the strategy.
ScanStep_SpinsInLoop ==
    /\ pc = "scan"
    /\ IF goal_selector = "NULL" \/ f_it > Len(fmap)
       THEN UndefinedRead
       ELSE IF LoopContinues(SelectorAccepts(fmap[f_it]))
            THEN Advance
            ELSE Commit(GoalOf(fmap[f_it]))
    /\ IF pending # <<>>
       THEN fmap' = pending[1] /\ map_received' = TRUE
       ELSE UNCHANGED <<fmap, map_received>>
    /\ pending' = <<>>
    /\ UNCHANGED <<rosOk, config, goal_selector, first_time,
                   exploration_finished, pose, verdict, scanRan, history>>

\* Line 72: one evaluation of the condition of the while loop.
ScanStep ==
    /\ pc = "scan"
    /\ IF goal_selector = "NULL" \/ f_it > Len(fmap)
       THEN UndefinedRead
       ELSE IF LoopContinues(SelectorAccepts(fmap[f_it]))
            THEN Advance
            ELSE Commit(GoalOf(fmap[f_it]))
    /\ UNCHANGED <<rosOk, config, goal_selector, fmap, pending, map_received,
                   first_time, exploration_finished, pose, verdict, scanRan,
                   history>>

\* -------------------------------------------------------------------- spin

\* Lines 187-214 with refreshPose() called before the test of mapReceived():
\* the pose is refreshed on a tick that waits for the map.
WaitForMap_RefreshesPose ==
    /\ pc' = "spinOnce"
    /\ \E ok \in BOOLEAN : pose' = IF ok THEN "ok" ELSE "fail"
    /\ UNCHANGED <<rosOk, first_time, moving, goal, f_it, verdict, scanRan,
                   invoked, dispatched, refreshed, warnings, runObs>>

\* Lines 213-214: no map yet.
WaitForMap ==
    /\ pc' = "spinOnce"
    /\ UNCHANGED <<rosOk, first_time, moving, goal, f_it, tickObs, refreshed,
                   warnings, runObs>>

\* Lines 198-210 with first_time cleared before the pose is tested: a failed
\* tick uses up the bootstrap.
PoseFailed_ClearsFirstTime ==
    /\ pose' = "fail"
    /\ pc' = "spinOnce"
    /\ first_time' = FALSE
    /\ warnings' = IF warnings < 2 THEN warnings + 1 ELSE warnings
    /\ UNCHANGED <<moving, goal, f_it, verdict, scanRan, invoked, dispatched,
                   refreshed>>

\* Lines 209-210: refreshPose() failed; a warning is all that happens.
\* ROS_WARN logs on every call.
PoseFailed ==
    /\ pose' = "fail"
    /\ pc' = "spinOnce"
    /\ warnings' = IF warnings < 2 THEN warnings + 1 ELSE warnings
    /\ UNCHANGED <<first_time, moving, goal, f_it, verdict, scanRan, invoked,
                   dispatched, refreshed>>

\* Line 200 written as first_time || replaner.replan(): the flag
\* short-circuits the call.
ReplanEvaluated_FlagFirst(ft) == ~ft

\* Line 200, replaner.replan() || first_time: the call is the left operand,
\* evaluated whatever first_time holds.
ReplanEvaluated(ft) == TRUE

\* Lines 199-208: refreshPose() succeeded; replan() is evaluated, and the
\* scan runs if it says so or on the first such tick.
PoseRefreshed ==
    /\ pose' = "ok"
    /\ refreshed' = TRUE
    /\ warnings' = 0
    /\ \E v \in ReplanVerdicts :
         /\ verdict' = IF ReplanEvaluated(first_time)
                       THEN (IF v THEN "yes" ELSE "no")
                       ELSE "none"
         /\ IF ReplanWarranted(v, first_time)
            THEN BeginScan
            ELSE /\ pc' = "spinOnce"
                 /\ UNCHANGED <<first_time, moving, goal, f_it, scanRan,
                                invoked, dispatched>>

\* Lines 198-210.
Explore ==
    /\ \E ok \in BOOLEAN : IF ok THEN PoseRefreshed ELSE PoseFailed
    /\ UNCHANGED <<rosOk, runObs>>

\* Line 185 with ros::ok() false: the loop ends, spin() and main() return.
Exit ==
    /\ pc' = "exited"
    /\ UNCHANGED <<rosOk, first_time, moving, goal, f_it, tickObs, refreshed,
                   warnings, runObs>>

\* Line 189, mapServer.setMapReceived(): the flag stays set once a map has
\* been received (the loop stays in Exploring).
setMapReceived == TRUE

\* Lines 185-214: the test of the loop and its body up to ros::spinOnce()
\* (up to the entry of decideGoal() when the tick replans). The body does not
\* read ros::ok(), so the test and the body are one step.
Tick ==
    /\ pc = "test"
    /\ IF ~rosOk
       THEN Exit
       ELSE IF map_received
            THEN IF exploration_finished THEN Finish ELSE Explore
            ELSE WaitForMap
    /\ map_received' = IF rosOk /\ map_received THEN setMapReceived ELSE map_received
    /\ UNCHANGED <<config, goal_selector, fmap, pending, exploration_finished>>

\* Lines 89-92 with the new frontiers added to fmap instead of assigned.
getFrontiers_Merges(old, f_in) == old \o f_in

\* Lines 89-92: the new value of fmap.
getFrontiers(old, f_in) == f_in

\* Lines 216-217: the queued map callbacks run, then the loop sleeps. Each
\* callback assigns fmap, so after several of them fmap is the last one
\* delivered: pending holds that one. The iteration is over: the record of
\* what it did is cleared.
SpinOnce ==
    /\ pc = "spinOnce"
    /\ IF pending # <<>>
       THEN /\ fmap' = getFrontiers(fmap, pending[1])
            /\ map_received' = TRUE
       ELSE UNCHANGED <<fmap, map_received>>
    /\ pending' = <<>>
    /\ pose' = "none"
    /\ verdict' = "none"
    /\ scanRan' = FALSE
    /\ invoked' = <<>>
    /\ dispatched' = <<>>
    /\ f_it' = 1
    /\ pc' = "test"
    /\ UNCHANGED <<rosOk, config, goal_selector, first_time,
                   exploration_finished, moving, goal, history>>

\* ------------------------------------------------------------- environment

Running == pc \notin {"aborted", "exited", "crashed"}

\* The map server receives a map and queues the callback with its frontiers.
\* pending stands for the last update queued before the next spinOnce: a
\* later one would only replace it, so it is chosen once.
MapPublish ==
    /\ Running
    /\ pc # "startup"
    /\ pending = <<>>
    /\ \E fs \in FrontierSets : pending' = <<fs>>
    /\ UNCHANGED <<pc, rosOk, config, goal_selector, fmap, map_received,
                   first_time, exploration_finished, moving, goal, f_it,
                   tickObs, history>>

\* An external stop (SIGINT, rosnode kill): ros::ok() becomes false.
StopSignal ==
    /\ Running
    /\ rosOk
    /\ rosOk' = FALSE
    /\ stopWhileMoving' = moving
    /\ UNCHANGED <<pc, config, goal_selector, fmap, pending, map_received,
                   first_time, exploration_finished, moving, goal, f_it,
                   tickObs, refreshed, warnings, finishCalls, cancelCalls,
                   firstScan>>

\* The motion controller reports the goal reached: the robot stops.
GoalReached ==
    /\ Running
    /\ moving
    /\ moving' = FALSE
    /\ UNCHANGED <<pc, rosOk, config, goal_selector, fmap, pending,
                   map_received, first_time, exploration_finished, goal, f_it,
                   tickObs, history>>

\* The steps of the node's own thread.
Control == Startup \/ Tick \/ ScanStep \/ SpinOnce

Next == Control \/ MapPublish \/ StopSignal \/ GoalReached

Spec == Init /\ [][Next]_vars

\* The node's thread is never starved: it runs while it has a step to take.
FairSpec == Spec /\ WF_vars(Control)

\* ------------------------------------------------- two scans of one set

\* A state in which decideGoal() has just been entered on a replanning tick,
\* with a strategy installed, for every frontier set and every acceptance
\* criterion of the strategy.
InitScanTwice ==
    /\ pc = "scan"
    /\ rosOk = TRUE
    /\ selectorName = "mid_point"
    /\ replan_conditions = <<"known">>
    /\ goal_selector = "midPoint"
    /\ accepts \in SUBSET Frontiers
    /\ fmap \in FrontierSets
    /\ pending = <<>>
    /\ map_received = TRUE
    /\ first_time = FALSE
    /\ exploration_finished = FALSE
    /\ moving = FALSE
    /\ goal = NoGoal
    /\ f_it = 1
    /\ pose = "ok"
    /\ verdict = "yes"
    /\ scanRan = TRUE
    /\ invoked = <<>>
    /\ dispatched = <<>>
    /\ refreshed = TRUE
    /\ warnings = 0
    /\ finishCalls = 0
    /\ cancelCalls = 0
    /\ stopWhileMoving = FALSE
    /\ firstScan = <<>>

\* Lines 216-217 and 185-206 after the first scan: the iteration ends with no
\* map callback queued (fmap stays), the next tick refreshes the pose,
\* replan() says yes and decideGoal() is entered again. The goal the first
\* scan dispatched and the frontier it chose (the position the iterator
\* stopped at) are kept in firstScan.
ScanAgain ==
    /\ pc = "spinOnce"
    /\ scanRan
    /\ firstScan = <<>>
    /\ pending = <<>>
    /\ rosOk
    /\ firstScan' = <<dispatched, f_it>>
    /\ pose' = "ok"
    /\ verdict' = "yes"
    /\ warnings' = 0
    /\ scanRan' = TRUE
    /\ invoked' = <<>>
    /\ dispatched' = <<>>
    /\ f_it' = 1
    /\ pc' = "scan"
    /\ UNCHANGED <<rosOk, config, goal_selector, fmap, pending, map_received,
                   first_time, exploration_finished, moving, goal, refreshed,
                   finishCalls, cancelCalls, stopWhileMoving>>

ScanTwiceNext == ScanStep \/ ScanAgain

\* decideGoal() run twice on one frontier set with one strategy.
ScanTwiceSpec == InitScanTwice /\ [][ScanTwiceNext]_vars

\* ------------------------------------------------------------------ claims

\* Position of the first frontier of fs the strategy accepts, 0 if none.
FirstAccepted(fs) ==
    IF \E i \in 1..Len(fs) : fs[i] \in accepts
    THEN CHOOSE i \in 1..Len(fs) :
           /\ fs[i] \in accepts
           /\ \A j \in 1..(i - 1) : fs[j] \notin accepts
    ELSE 0

\* <<1, 2, ..., n>>
UpTo(n) == [i \in 1..n |-> i]

\* The scan of this tick has ended (fmap is still the set it read: only the
\* closing spinOnce replaces it).
ScanEnded == scanRan /\ pc \in {"spinOnce", "crashed"}

\* C1: when the strategy declines every frontier of the frontier set (the
\* empty set included), a tick that runs the scan dispatches no goTo, raises
\* no error and goes on to the rest of the loop.
CexC1_DeclinedScanIsQuiet ==
    (goal_selector = "midPoint" /\ ScanEnded /\ FirstAccepted(fmap) = 0)
        => (pc = "spinOnce" /\ dispatched = <<>>)

\* C2: a scan of a frontier set of length n invokes the strategy at most n
\* times and never on a position at or past the end of the set.
CexC2_ScanStaysInBounds ==
    (goal_selector = "midPoint" /\ scanRan)
        => /\ Len(invoked) <= Len(fmap)
           /\ \A i \in 1..Len(invoked) : invoked[i] <= Len(fmap)

\* The termination condition: a map has been received and it has no frontier.
TerminationCondition == map_received /\ fmap = <<>>

\* No read of the scan so far was undefined.
ScanDefined ==
    /\ goal_selector = "midPoint"
    /\ \A i \in 1..Len(invoked) : invoked[i] <= Len(fmap)

\* C3: if the termination condition holds from some point on, finish() is
\* eventually executed. Stated for the runs with a valid configuration in
\* which the node is neither stopped from outside nor killed by a fault and
\* no scan reads past the end of the frontier set, so that a run refuting it
\* owes nothing to those.
CexC3_EventuallyFinished ==
    (/\ selectorName = "mid_point"
     /\ <>[]TerminationCondition
     /\ [](Running /\ (pc # "startup" => ScanDefined)))
        => <>(finishCalls > 0)

\* finish() is never called: exploration_finished is set at line 184 and
\* assigned nowhere else, so the branch of line 194 is never taken.
FinishUnreachable == ~exploration_finished /\ finishCalls = 0 /\ cancelCalls = 0

\* C4: in a tick whose refreshPose() fails, from the failure to the closing
\* spinOnce, no goTo is dispatched, replan() is not evaluated, no scan runs,
\* and the robot's goal, the frontier set and first_time keep their values.
ThmC4_PoseFailureChangesNothing ==
    [][(pose' = "fail")
          => /\ pc' = "spinOnce"
             /\ dispatched' = <<>>
             /\ verdict' = "none"
             /\ ~scanRan'
             /\ invoked' = <<>>
             /\ goal' = goal
             /\ fmap' = fmap
             /\ first_time' = first_time
             /\ cancelCalls' = cancelCalls]_vars

\* A failed tick with a goal in progress, the bootstrap still pending and a
\* map update queued.
WitC4_PoseFailedTick ==
    /\ pose = "fail"
    /\ pc = "spinOnce"
    /\ goal # NoGoal
    /\ pending # <<>>

\* C5: the first tick on which refreshPose() succeeds enters the scan whatever
\* replan() says; failed ticks before it leave the bootstrap pending; on later
\* ticks the scan runs only if replan() says so.
ThmC5_BootstrapScan ==
    /\ [](pc # "startup" => (first_time <=> ~refreshed))
    /\ [][(pose = "none" /\ pose' = "ok")
             => /\ ~refreshed => (scanRan' /\ pc' = "scan")
                /\ refreshed => (scanRan' <=> verdict' = "yes")]_vars

\* The bootstrap scan under a negative verdict.
WitC5_ForcedScan ==
    /\ scanRan
    /\ verdict = "no"
    /\ pc = "scan"

\* C6: when the frontier set holds an accepted frontier, the first at
\* position k, the scan invokes the strategy on positions 1..k, once each and
\* in order, on no later position, and dispatches the goal of the frontier
\* at k.
ThmC6_FirstAcceptedWins ==
    (goal_selector = "midPoint" /\ scanRan /\ FirstAccepted(fmap) # 0)
        => LET k == FirstAccepted(fmap)
           IN /\ pc \in {"scan", "spinOnce"}
              /\ pc = "scan"
                   => /\ f_it <= k
                      /\ invoked = UpTo(f_it - 1)
                      /\ dispatched = <<>>
              /\ pc = "spinOnce"
                   => /\ invoked = UpTo(k)
                      /\ dispatched = <<GoalOf(fmap[k])>>
                      /\ goal = GoalOf(fmap[k])

\* The frontier set [f1, f2, f3] of which the second is the first accepted.
WitC6_SecondOfThree ==
    /\ goal_selector = "midPoint"
    /\ scanRan
    /\ pc = "spinOnce"
    /\ Len(fmap) = 3
    /\ FirstAccepted(fmap) = 2
    /\ dispatched = <<GoalOf(fmap[2])>>

\* C9: with a goal-selector name that is no strategy, the loop is never
\* entered: no tick, no pose refresh, no scan, no goTo.
CexC9_UnknownSelectorAborts ==
    selectorName = "bogus"
        => /\ pc \notin {"scan", "spinOnce", "crashed"}
           /\ pose = "none"
           /\ ~scanRan
           /\ dispatched = <<>>

\* C10: when the stop signal arrived while the robot was moving, cancelGoal
\* has been called by the time the process has exited.
CexC10_StopCancelsGoal ==
    (pc = "exited" /\ stopWhileMoving) => cancelCalls > 0

\* C11: the frontier set is not replaced while a scan is in progress: no step
\* taken during a scan changes fmap, whatever map updates arrive meanwhile;
\* an update that arrives during a tick stays queued, and fmap takes its
\* value only in the spinOnce that closes the iteration.
ThmC11_NoReplacementDuringScan ==
    [][/\ pc = "scan" => fmap' = fmap
       /\ (pending = <<>> /\ pending' # <<>>) => fmap' = fmap
       /\ fmap' # fmap => (pc = "spinOnce" /\ pc' = "test")]_vars

\* A scan that has invoked the strategy and goes on, with an update that
\* differs from the set being scanned queued meanwhile.
WitC11_UpdateQueuedMidScan ==
    /\ pc = "scan"
    /\ invoked # <<>>
    /\ f_it <= Len(fmap)
    /\ pending # <<>>
    /\ pending[1] # fmap

\* C12: while no map update has been received (mapReceived() is false), a
\* tick refreshes no pose, evaluates no replan(), runs no scan and dispatches
\* no goTo, and nothing has been dispatched so far; the first tick that finds
\* a map received leaves the wait: it refreshes the pose.
ThmC12_WaitingForMapIsIdle ==
    /\ [](~map_received
            => /\ pose = "none"
               /\ verdict = "none"
               /\ ~scanRan
               /\ dispatched = <<>>
               /\ goal = NoGoal
               /\ ~refreshed
               /\ first_time
               /\ fmap = <<>>)
    /\ [][(pc = "test" /\ pc' # "test" /\ rosOk)
             => /\ ~map_received => (pc' = "spinOnce" /\ ~map_received')
                /\ map_received => pose' \in {"ok", "fail"}]_vars

\* A tick that waited for the map has run, and the first update is queued.
WitC12_WaitingTick ==
    /\ ~map_received
    /\ pc = "spinOnce"
    /\ rosOk
    /\ pending # <<>>

\* C13: a tick never dispatches more than one goTo; the goTo of a scan that
\* accepts a frontier carries the pose derived from that frontier and becomes
\* the robot's goal, also when an earlier goal is still in progress; and a
\* tick whose scan has accepted a frontier has dispatched exactly one goTo.
ThmC13_OneDispatchPerReplan ==
    /\ [](Len(dispatched) <= 1)
    /\ []((goal_selector = "midPoint" /\ scanRan /\ pc = "spinOnce"
              /\ FirstAccepted(fmap) # 0)
            => Len(dispatched) = 1)
    /\ [][(pc = "scan" /\ pc' = "spinOnce" /\ goal_selector = "midPoint"
              /\ f_it <= Len(fmap))
            => /\ fmap[f_it] \in accepts
               /\ dispatched' = <<GoalOf(fmap[f_it])>>
               /\ goal' = GoalOf(fmap[f_it])
               /\ moving']_vars

\* The frontier set [f1] with a strategy that accepts every frontier, on a
\* replanning tick after the bootstrap: f1's pose has been dispatched.
WitC13_SingleFrontierDispatched ==
    /\ pc = "spinOnce"
    /\ fmap = <<"f1">>
    /\ accepts = Frontiers
    /\ verdict = "yes"
    /\ dispatched = <<GoalOf("f1")>>
    /\ goal = GoalOf("f1")

\* C14: in a run of consecutive ticks on which refreshPose() fails, the
\* warning is logged at most once.
CexC14_WarnedOncePerStreak == warnings <= 1

\* A configured cause name is no replanning cause.
UnknownCauseConfigured ==
    \E i \in 1..Len(replan_conditions) : replan_conditions[i] # "known"

\* C15: when a configured replanning cause name is unrecognized, the startup
\* ends in the configuration error: the loop is never entered (no tick, no
\* pose refresh, no scan, no goTo, no strategy installed); and the startup
\* ends so only then.
ThmC15_UnknownCauseAborts ==
    /\ UnknownCauseConfigured
         => /\ pc \in {"startup", "aborted"}
            /\ pose = "none"
            /\ ~scanRan
            /\ dispatched = <<>>
            /\ goal_selector = "NULL"
    /\ pc = "aborted" => UnknownCauseConfigured

\* The startup aborted on the second of two configured causes.
WitC15_AbortedAtSecondCause ==
    /\ pc = "aborted"
    /\ replan_conditions = <<"known", "bogus">>

\* C16: the second of two scans of the same frontier set with the same
\* strategy ends as the first did: with the same goal dispatched and the same
\* frontier chosen.
CexC16_SameScanSameGoal ==
    (firstScan # <<>> /\ pc \in {"spinOnce", "crashed"})
        => (pc = "spinOnce" /\ <<dispatched, f_it>> = firstScan)

\* C16 for the frontier sets that hold a frontier the strategy accepts: on
\* these the two scans do agree.
SameScanSameGoalWhenAccepted ==
    (firstScan # <<>> /\ pc \in {"spinOnce", "crashed"} /\ FirstAccepted(fmap) # 0)
        => (pc = "spinOnce" /\ <<dispatched, f_it>> = firstScan)

\* C17: a tick after the bootstrap on which refreshPose() succeeds and
\* replan() says no enters no scan and dispatches no goTo, up to its end; a
\* scan is entered only on a tick whose pose refreshed and on which replan()
\* said yes or the bootstrap was pending, and a goTo comes only out of a scan.
ThmC17_NoReplanNoDispatch ==
    /\ []((pose = "ok" /\ verdict = "no" /\ ~scanRan)
            => (pc = "spinOnce" /\ dispatched = <<>> /\ invoked = <<>>))
    /\ [](dispatched # <<>> => (scanRan /\ pose = "ok"))
    /\ [](scanRan => pose = "ok")
    /\ [][(pose = "none" /\ pose' = "ok" /\ refreshed /\ verdict' = "no")
            => (~scanRan' /\ pc' = "spinOnce" /\ goal' = goal /\ moving' = moving)]_vars
    /\ [][(~scanRan /\ scanRan')
            => (pose' = "ok" /\ (verdict' = "yes" \/ ~refreshed))]_vars

\* A tick after the bootstrap with the pose refreshed and a negative verdict:
\* the goal in progress is kept.
WitC17_KeptGoal ==
    /\ pc = "spinOnce"
    /\ pose = "ok"
    /\ verdict = "no"
    /\ ~scanRan
    /\ moving
    /\ goal # NoGoal

\* C18: the spinOnce that delivers a queued map update leaves fmap equal to
\* the delivered set, whatever fmap held before; every other step (the test
\* of the loop, the pose refresh, replan(), the scan, the dispatch, finish(),
\* a spinOnce with nothing queued) leaves fmap as it was.
ThmC18_ReplacedWholesaleByCallbackOnly ==
    [][IF pc = "spinOnce" /\ pc' = "test" /\ pending # <<>>
       THEN fmap' = pending[1] /\ map_received'
       ELSE fmap' = fmap]_vars

\* A non-empty frontier set has been replaced: the loop runs on a set it got
\* from a callback while an earlier goal, taken from an earlier set, is
\* pursued.
WitC18_SetReplaced ==
    /\ pc = "test"
    /\ fmap = <<"f2">>
    /\ goal = GoalOf("f1")
    /\ accepts = {"f1"}

\* C19: whenever the goal scan is entered or has run in a tick, a strategy
\* has been constructed and goal_selector refers to it, whatever the
\* configured goal_selector/type.
CexC19_ScanHasStrategy ==
    (pc = "scan" \/ scanRan) => goal_selector = "midPoint"

\* C20: in a tick, replan() has been evaluated exactly when refreshPose has
\* succeeded in it; the verdict is taken in the very step in which the pose
\* is refreshed, the bootstrap tick included, and is not taken again before
\* the tick ends. A tick that waits for the map, or whose pose refresh
\* fails, takes none.
ThmC20_ReplanEvaluatedOncePerRefresh ==
    /\ []((pose = "ok") <=> (verdict # "none"))
    /\ [](pose \in {"none", "fail"} => verdict = "none")
    /\ [][(pose = "none" /\ pose' = "ok") => (verdict = "none" /\ verdict' # "none")]_vars
    /\ [][(first_time /\ pose' = "ok" /\ pose # "ok") => verdict' \in {"yes", "no"}]_vars
    /\ [][verdict' # verdict
            => \/ (verdict = "none" /\ pose = "none" /\ pose' = "ok")
               \/ (verdict' = "none" /\ pc = "spinOnce" /\ pc' = "test")]_vars

\* The bootstrap tick has run the scan although the verdict, evaluated all
\* the same, was negative.
WitC20_BootstrapVerdictTaken ==
    /\ pc = "spinOnce"
    /\ pose = "ok"
    /\ verdict = "no"
    /\ scanRan
    /\ dispatched # <<>>

====
